---------------------------- MODULE Spec2Model ----------------------------
(***************************************************************************)
(* Model of the robot execution-failure block parser of the notebook       *)
(* ML_16_collaborative_filtering_recommender.ipynb (the cell that builds   *)
(* X and y from `lines`).  A line of text is a sequence of one-character   *)
(* strings, so that str.strip, str.split and int are computed on the       *)
(* characters as Python computes them.  The module also models the cells   *)
(* of ml_08_regularization_cross_validation.ipynb that seed a generator    *)
(* and draw the noise (SeedSpec), and the left and right merge cells of    *)
(* the first notebook (MergeSpec).                                         *)
(***************************************************************************)
EXTENDS Integers, Sequences, FiniteSets, TLC

\* lines, X, y, classes, i: the notebook's variables of those names; i is the
\*     index the loop is at (the next one to visit, LoopBound once the range
\*     is exhausted)
\* pc:   "ready" before the cell has run, "loop" inside the for loop, "done"
\*     after it, "error" when the cell stopped on an exception
\* err:  the exception that stopped the cell, "none" otherwise
\* runs: how many times the cell has been started
\* prev: what X, y, classes and pc were when the cell was last started
\* X_new: the list the feature-engineering cell builds; xi: how many elements
\*     of X its for loop has taken; that cell's pc values are "torque",
\*     "torque_done" and "torque_error"
\* session: the regularization notebook run in two fresh interpreters;
\*     session[r] holds how many of its cells run r has executed, the state
\*     of Python's generator (random), the state of NumPy's global generator
\*     (np_random) and the notebook's e, y, e2, y2
\* left, right, df: the frames of the merge cells; merged: the merge cell
\*     that assigned df last, "none" before any
VARIABLES lines, X, y, classes, i, pc, err, runs, prev, X_new, xi,
          session, left, right, df, merged

\* the state of the parser cell and of the feature-engineering cell
parserVars == <<lines, X, y, classes, i, pc, err, runs, prev, X_new, xi>>

\* the state of the cells modelled apart from them
elsewhere == <<session, left, right, df, merged>>

vars == <<parserVars, elsewhere>>

-----------------------------------------------------------------------------
(* Bounds of the model *)

\* longest input enumerated over CoreLines
MaxLines == 3
\* how many times the parser cell is executed in one session
MaxRuns == 2

-----------------------------------------------------------------------------
(* Characters and Python's string primitives *)

TAB == "\t"
NL == "\n"
SP == " "

\* the characters str.strip() removes and int() tolerates around a number
Whitespace == {" ", "\t", "\n", "\r"}

DigitChars == <<"0", "1", "2", "3", "4", "5", "6", "7", "8", "9">>

Digits == {DigitChars[k] : k \in 1..10}

DigitVal(c) == (CHOOSE k \in 1..10 : DigitChars[k] = c) - 1

RECURSIVE lstrip(_)
lstrip(s) ==
    IF s = <<>> THEN s
    ELSE IF Head(s) \in Whitespace THEN lstrip(Tail(s)) ELSE s

RECURSIVE rstrip(_)
rstrip(s) ==
    IF s = <<>> THEN s
    ELSE IF s[Len(s)] \in Whitespace THEN rstrip(SubSeq(s, 1, Len(s) - 1)) ELSE s

\* a strip that forgets the leading side (mutant of strip)
stripRightOnly(s) == rstrip(s)

\* str.strip(): both ends, default whitespace
strip(s) == rstrip(lstrip(s))

\* a split that drops empty fields, as str.split() without argument would
RECURSIVE splitDropEmpty(_, _)
splitDropEmpty(s, sep) ==
    LET hits == {k \in 1..Len(s) : s[k] = sep}
    IN  IF hits = {} THEN (IF s = <<>> THEN <<>> ELSE <<s>>)
        ELSE LET k == CHOOSE h \in hits : \A g \in hits : h <= g
                 rest == splitDropEmpty(SubSeq(s, k + 1, Len(s)), sep)
             IN  IF k = 1 THEN rest ELSE <<SubSeq(s, 1, k - 1)>> \o rest

\* str.split(sep) with an explicit one-character separator: every separator
\* cuts, so adjacent separators and an empty string give empty fields
RECURSIVE split(_, _)
split(s, sep) ==
    LET hits == {k \in 1..Len(s) : s[k] = sep}
    IN  IF hits = {} THEN <<s>>
        ELSE LET k == CHOOSE h \in hits : \A g \in hits : h <= g
             IN  <<SubSeq(s, 1, k - 1)>> \o split(SubSeq(s, k + 1, Len(s)), sep)

\* the part of an int() literal after whitespace and sign are removed
IntBody(x) ==
    LET t == strip(x)
    IN  IF t # <<>> /\ t[1] \in {"+", "-"} THEN Tail(t) ELSE t

\* whether int(x) returns (TRUE) or raises ValueError (FALSE): optional
\* surrounding whitespace, optional sign, digits with single underscores
\* between them
IntParses(x) ==
    LET u == IntBody(x)
    IN  /\ u # <<>>
        /\ \A k \in 1..Len(u) : u[k] \in Digits \cup {"_"}
        /\ u[1] # "_"
        /\ u[Len(u)] # "_"
        /\ \A k \in 1..(Len(u) - 1) : ~(u[k] = "_" /\ u[k + 1] = "_")

RECURSIVE DecimalValue(_)
DecimalValue(u) ==
    IF u = <<>> THEN 0
    ELSE IF u[Len(u)] = "_" THEN DecimalValue(SubSeq(u, 1, Len(u) - 1))
    ELSE 10 * DecimalValue(SubSeq(u, 1, Len(u) - 1)) + DigitVal(u[Len(u)])

\* an int() that loses the sign (mutant of IntOf)
IntOfUnsigned(x) == DecimalValue(IntBody(x))

\* the value int(x) returns when IntParses(x)
IntOf(x) ==
    LET t == strip(x)
    IN  IF t[1] = "-" THEN 0 - DecimalValue(IntBody(x)) ELSE DecimalValue(IntBody(x))

-----------------------------------------------------------------------------
(* The label strings and the classes literal *)

LblNormal == <<"n", "o", "r", "m", "a", "l">>
LblCollision == <<"c", "o", "l", "l", "i", "s", "i", "o", "n">>
LblObstruction == <<"o", "b", "s", "t", "r", "u", "c", "t", "i", "o", "n">>
LblFrCollision == <<"f", "r", "_", "c", "o", "l", "l", "i", "s", "i", "o", "n">>


\* a dictionary filled in first-seen order while scanning (mutant of
\* ClassesLiteral)
ClassesFirstSeen ==
    LET labels == {LblNormal, LblCollision, LblObstruction, LblFrCollision}
        seen(l) == {k \in 1..Len(lines) : strip(lines[k]) = l}
        first(l) ==
            IF seen(l) = {} THEN Len(lines) + 1
            ELSE CHOOSE k \in seen(l) : \A m \in seen(l) : k <= m
    IN  [l \in labels |-> Cardinality({m \in labels : first(m) < first(l)})]

\* a literal in which two classes got the same code (mutant of
\* ClassesLiteral)
ClassesSharedCode ==
    (LblNormal :> 0) @@ (LblCollision :> 1) @@ (LblObstruction :> 1)
        @@ (LblFrCollision :> 3)

\* classes = {'normal':0, 'collision':1, 'obstruction':2, 'fr_collision':3}
ClassesLiteral ==
    (LblNormal :> 0) @@ (LblCollision :> 1) @@ (LblObstruction :> 2)
        @@ (LblFrCollision :> 3)

-----------------------------------------------------------------------------
(* Input lines.  Tokens are written out as characters and joined. *)

RECURSIVE Join(_, _)
Join(toks, sep) ==
    IF toks = <<>> THEN <<>>
    ELSE IF Len(toks) = 1 THEN toks[1]
    ELSE toks[1] \o <<sep>> \o Join(Tail(toks), sep)

Tm3 == <<"-", "3">>
Tm2 == <<"-", "2">>
Tm1 == <<"-", "1">>
T0 == <<"0">>
T1 == <<"1">>
T2 == <<"2">>
T3 == <<"3">>
T4 == <<"4">>
T5 == <<"5">>
T6 == <<"6">>
T61 == <<"6", "1">>
T62 == <<"6", "2">>
T63 == <<"6", "3">>

\* label lines as readlines() returns them
LnNormal == LblNormal \o <<NL>>
LnCollision == LblCollision \o <<NL>>
LnObstruction == LblObstruction \o <<NL>>
LnFrCollision == LblFrCollision \o <<NL>>

\* the four data lines recorded in the output of lines[:5]
LnRec1 == <<TAB>> \o Join(<<Tm1, Tm1, T63, Tm3, Tm1, T0>>, TAB) \o <<NL>>
LnRec2 == <<TAB>> \o Join(<<T0, T0, T62, Tm3, Tm1, T0>>, TAB) \o <<NL>>
LnRec3 == <<TAB>> \o Join(<<Tm1, Tm1, T61, Tm3, T0, T0>>, TAB) \o <<NL>>
LnRec4 == <<TAB>> \o Join(<<Tm1, Tm1, T63, Tm2, Tm1, T0>>, TAB) \o <<NL>>

\* data lines without line ending, as in the specification's examples
LnBare1 == Join(<<Tm1, Tm1, T63, Tm3, Tm1, T0>>, TAB)
LnBare2 == Join(<<T1, T2, T3, T4, T5, T6>>, TAB)
LnTab000 == Join(<<T0, T0, T0>>, TAB)
LnTab111 == Join(<<T1, T1, T1>>, TAB)
LnTab222 == Join(<<T2, T2, T2>>, TAB)
LnSp000 == Join(<<T0, T0, T0>>, SP)
LnSp111 == Join(<<T1, T1, T1>>, SP)
LnSp222 == Join(<<T2, T2, T2>>, SP)

\* lines in the source file's format, a leading tab and a line ending, with
\* one, three and seven readings
T7 == <<"7">>
LnSrc1 == <<TAB>> \o Join(<<T5>>, TAB) \o <<NL>>
LnSrc3 == <<TAB>> \o Join(<<Tm2, T0, T61>>, TAB) \o <<NL>>
LnSrc7 == <<TAB>> \o Join(<<T1, T2, T3, T4, T5, T6, T7>>, TAB) \o <<NL>>

\* five fields where six are expected
LnFive == Join(<<T1, T2, T3, T4, T5>>, TAB) \o <<NL>>
\* a token that is not a number
LnBadTok == Join(<<T1, <<"x">>, T3, T4, T5, T6>>, TAB) \o <<NL>>

\* an empty token between two adjacent tabs
LnEmptyTok == Join(<<T1, <<>>, T3, T4, T5, T6>>, TAB) \o <<NL>>
\* fields separated by commas
LnComma == Join(<<T1, T2, T3, T4, T5, T6>>, ",") \o <<NL>>
\* a floating-point literal, 0.438, as first field
TFloat == <<"0", ".", "4", "3", "8">>
LnFloat == Join(<<TFloat, T2, T3, T4, T5, T6>>, TAB) \o <<NL>>

\* lines that resemble a label line: another case, a label as prefix, a
\* label inside a longer word; and a label line with blanks around it
LnUpper == <<"N", "o", "r", "m", "a", "l", NL>>
LnPrefixed == LblNormal \o <<SP, "x", NL>>
LnContains == <<"a", "b">> \o LblNormal \o <<NL>>
LnPadded == <<SP>> \o LblNormal \o <<SP, TAB, NL>>

\* the tab-delimited integer data lines, each with the field vector it denotes
TabIntLines ==
    { [text |-> LnRec1, fields |-> <<-1, -1, 63, -3, -1, 0>>],
      [text |-> LnRec2, fields |-> <<0, 0, 62, -3, -1, 0>>],
      [text |-> LnRec3, fields |-> <<-1, -1, 61, -3, 0, 0>>],
      [text |-> LnRec4, fields |-> <<-1, -1, 63, -2, -1, 0>>],
      [text |-> LnBare1, fields |-> <<-1, -1, 63, -3, -1, 0>>],
      [text |-> LnBare2, fields |-> <<1, 2, 3, 4, 5, 6>>],
      [text |-> LnTab000, fields |-> <<0, 0, 0>>],
      [text |-> LnTab111, fields |-> <<1, 1, 1>>],
      [text |-> LnTab222, fields |-> <<2, 2, 2>>],
      [text |-> LnFive, fields |-> <<1, 2, 3, 4, 5>>],
      [text |-> LnSrc1, fields |-> <<5>>],
      [text |-> LnSrc3, fields |-> <<-2, 0, 61>>],
      [text |-> LnSrc7, fields |-> <<1, 2, 3, 4, 5, 6, 7>>] }

\* the lines every input up to MaxLines long is built from
CoreLines == {LnNormal, LnCollision, LnRec1, LnBare2, LnFive, LnBadTok, LnSp000}

\* lines[:5] as recorded in the notebook
ExRecorded == <<LnNormal, LnRec1, LnRec2, LnRec3, LnRec4>>
\* one block of the source file: a class line and 15 lines of readings
ExBlock15 ==
    <<LnNormal, LnRec1, LnRec2, LnRec3, LnRec4, LnRec1, LnRec2, LnRec3, LnRec4,
      LnRec1, LnRec2, LnRec3, LnRec4, LnRec1, LnRec2, LnRec3>>
ExTabbed == <<LblNormal, LnBare1, LblCollision, LnBare2>>
ExSpaces == <<LblNormal, LnSp000, LblCollision, LnSp111, LblNormal, LnSp222>>
ExSpacesAsTabs == <<LblNormal, LnTab000, LblCollision, LnTab111, LblNormal, LnTab222>>
ExAllLabels ==
    <<LnFrCollision, LnRec1, LnObstruction, LnRec2, LnCollision, LnRec3, LnNormal, LnRec4>>

ExEmptyTok == <<LnNormal, LnEmptyTok, LnCollision, LnRec1>>
ExComma == <<LnNormal, LnComma>>
ExFloat == <<LnNormal, LnFloat>>
ExMixedMalformed == <<LnNormal, LnFive, LnCollision, LnBadTok>>
ExLookalikes ==
    <<LnUpper, LnRec1, LnPrefixed, LnRec2, LnContains, LnRec3, LnPadded, LnRec4>>

ExSourceFormat ==
    <<LnNormal, LnSrc1, LnCollision, LnSrc3, LnObstruction, LnSrc7, LnNormal, LnRec1>>

Examples ==
    {ExRecorded, ExBlock15, ExTabbed, ExSpaces, ExSpacesAsTabs, ExAllLabels,
     ExEmptyTok, ExComma, ExFloat, ExMixedMalformed, ExLookalikes,
     ExSourceFormat}

BoundedSeqs(S, n) == UNION {[1..m -> S] : m \in 0..n}

Inputs == BoundedSeqs(CoreLines, MaxLines) \cup Examples

-----------------------------------------------------------------------------
(* The parser cell *)

\* Python's 0-based indexing
At(seq, k) == seq[k + 1]

\* a cell that keeps the X of the previous run (mutant of EmptyList)
StaleList == X

\* X = [] and y = []
EmptyList == <<>>

\* a range that also visits the last line (mutant of LoopBound)
LoopBoundWhole == Len(lines)

\* a range that stops one line early, range(len(lines) - 2) (mutant of
\* LoopBound)
LoopBoundShort == Len(lines) - 2

\* range(len(lines) - 1): the indices 0 .. LoopBound - 1 are visited
LoopBound == Len(lines) - 1

\* line = lines[i].strip()
line == strip(At(lines, i))

\* a test that takes a line starting with a class name for a class line
\* (mutant of IsClassLine)
IsClassLinePrefix ==
    \E l \in DOMAIN classes : Len(line) >= Len(l) /\ SubSeq(line, 1, Len(l)) = l

\* line in classes.keys()
IsClassLine == line \in DOMAIN classes

\* a split on the comma (mutant of tokens)
tokensOnComma == split(strip(At(lines, i + 1)), ",")

\* a split on the space character (mutant of tokens)
tokensOnSpace == split(strip(At(lines, i + 1)), SP)

\* a split of the line as read, without strip() (mutant of tokens)
tokensUnstripped == split(At(lines, i + 1), TAB)

\* lines[i+1].strip().split('\t')
tokens == split(strip(At(lines, i + 1)), TAB)

\* the comprehension [int(x) for x in ...] completes: lines[i+1] exists and
\* int() accepts every token
FeaturesParse ==
    /\ i + 1 < Len(lines)
    /\ \A k \in 1..Len(tokens) : IntParses(tokens[k])

\* features = [int(x) for x in lines[i+1].strip().split('\t')]
features == [k \in 1..Len(tokens) |-> IntOf(tokens[k])]

\* the two runs of the regularization notebook, each in its own interpreter
Sessions == 1..2

\* a run whose interpreter has not been started
NotStarted ==
    [cell |-> 0, random |-> 0, np_random |-> 0,
     e |-> <<>>, y |-> <<>>, e2 |-> <<>>, y2 |-> <<>>]

\* neither run of the regularization notebook has been started
SeedIdle == session = [r \in Sessions |-> NotStarted]

\* left = pd.DataFrame({'key1': [...], 'key2': [...], 'A': [...], 'B': [...]}):
\* a frame is the sequence of its rows
LeftFrame ==
    << [key1 |-> "K0", key2 |-> "K0", A |-> "A0", B |-> "B0"],
       [key1 |-> "K0", key2 |-> "K1", A |-> "A1", B |-> "B1"],
       [key1 |-> "K1", key2 |-> "K0", A |-> "A2", B |-> "B2"],
       [key1 |-> "K2", key2 |-> "K1", A |-> "A3", B |-> "B3"] >>

\* right = pd.DataFrame({'key1': [...], 'key2': [...], 'C': [...], 'D': [...]})
RightFrame ==
    << [key1 |-> "K0", key2 |-> "K0", C |-> "C0", D |-> "D0"],
       [key1 |-> "K1", key2 |-> "K0", C |-> "C1", D |-> "D1"],
       [key1 |-> "K1", key2 |-> "K0", C |-> "C2", D |-> "D2"],
       [key1 |-> "K2", key2 |-> "K0", C |-> "C3", D |-> "D3"] >>

\* the example frames are defined and no merge cell has been run
MergeIdle ==
    /\ left = LeftFrame
    /\ right = RightFrame
    /\ df = <<>>
    /\ merged = "none"

Init ==
    /\ SeedIdle
    /\ MergeIdle
    /\ lines \in Inputs
    /\ X = <<>>
    /\ y = <<>>
    /\ classes = <<>>
    /\ i = 0
    /\ pc = "ready"
    /\ err = "none"
    /\ runs = 0
    /\ prev = [X |-> <<>>, y |-> <<>>, classes |-> <<>>, pc |-> "ready"]
    /\ X_new = <<>>
    /\ xi = 0

\* the cell is executed: its first three statements; prev keeps what the
\* session held when the cell was started
RunCell ==
    /\ pc \in {"ready", "done", "error"}
    /\ runs < MaxRuns
    /\ prev' = [X |-> X, y |-> y, classes |-> classes, pc |-> pc]
    /\ X' = EmptyList
    /\ y' = <<>>
    /\ classes' = ClassesLiteral
    /\ i' = 0
    /\ pc' = "loop"
    /\ err' = "none"
    /\ runs' = runs + 1
    /\ UNCHANGED <<elsewhere, lines, X_new, xi>>

\* an iteration that takes every line of readings, not only the one after a
\* class line (mutant of SkipLine)
SkipLineCollects ==
    /\ pc = "loop"
    /\ i < LoopBound
    /\ ~IsClassLine
    /\ LET toks == split(line, TAB)
           ok == \A k \in 1..Len(toks) : IntParses(toks[k])
       IN  /\ X' = IF ok /\ y # <<>>
                   THEN Append(X, [k \in 1..Len(toks) |-> IntOf(toks[k])])
                   ELSE X
           /\ y' = IF ok /\ y # <<>> THEN Append(y, y[Len(y)]) ELSE y
    /\ i' = i + 1
    /\ UNCHANGED <<elsewhere, lines, classes, pc, err, runs, prev, X_new, xi>>

\* an iteration whose line is not a class line
SkipLine ==
    /\ pc = "loop"
    /\ i < LoopBound
    /\ ~IsClassLine
    /\ i' = i + 1
    /\ UNCHANGED <<elsewhere, lines, X, y, classes, pc, err, runs, prev, X_new, xi>>

\* an iteration that forgets y.append (mutant of Collect)
CollectFeaturesOnly ==
    /\ pc = "loop"
    /\ i < LoopBound
    /\ IsClassLine
    /\ FeaturesParse
    /\ X' = Append(X, features)
    /\ i' = i + 1
    /\ UNCHANGED <<elsewhere, lines, y, classes, pc, err, runs, prev, X_new, xi>>

\* an iteration that puts the new Record in front, X.insert(0, features)
\* (mutant of Collect)
CollectAtFront ==
    /\ pc = "loop"
    /\ i < LoopBound
    /\ IsClassLine
    /\ FeaturesParse
    /\ X' = <<features>> \o X
    /\ y' = <<classes[line]>> \o y
    /\ i' = i + 1
    /\ UNCHANGED <<elsewhere, lines, classes, pc, err, runs, prev, X_new, xi>>

\* an iteration that renumbers the class it meets, as a dictionary built
\* while scanning would (mutant of Collect)
CollectRegistersClass ==
    /\ pc = "loop"
    /\ i < LoopBound
    /\ IsClassLine
    /\ FeaturesParse
    /\ X' = Append(X, features)
    /\ y' = Append(y, classes[line])
    /\ classes' = [classes EXCEPT ![line] = Len(y)]
    /\ i' = i + 1
    /\ UNCHANGED <<elsewhere, lines, pc, err, runs, prev, X_new, xi>>

\* an iteration that puts the code in front of y while the Record goes to
\* the end of X (mutant of Collect)
CollectCodeAtFront ==
    /\ pc = "loop"
    /\ i < LoopBound
    /\ IsClassLine
    /\ FeaturesParse
    /\ X' = Append(X, features)
    /\ y' = <<classes[line]>> \o y
    /\ i' = i + 1
    /\ UNCHANGED <<elsewhere, lines, classes, pc, err, runs, prev, X_new, xi>>

\* an iteration whose line is a class line and whose next line parses
Collect ==
    /\ pc = "loop"
    /\ i < LoopBound
    /\ IsClassLine
    /\ FeaturesParse
    /\ X' = Append(X, features)
    /\ y' = Append(y, classes[line])
    /\ i' = i + 1
    /\ UNCHANGED <<elsewhere, lines, classes, pc, err, runs, prev, X_new, xi>>

\* an iteration that has recorded the class before the comprehension raises
\* (mutant of RaiseError)
RaiseErrorAfterLabelAppend ==
    /\ pc = "loop"
    /\ i < LoopBound
    /\ IsClassLine
    /\ ~FeaturesParse
    /\ y' = Append(y, classes[line])
    /\ pc' = "error"
    /\ err' = IF i + 1 < Len(lines) THEN "ValueError" ELSE "IndexError"
    /\ UNCHANGED <<elsewhere, lines, X, classes, i, runs, prev, X_new, xi>>

\* an iteration that swallows the exception and goes on (mutant of
\* RaiseError)
RaiseErrorSkips ==
    /\ pc = "loop"
    /\ i < LoopBound
    /\ IsClassLine
    /\ ~FeaturesParse
    /\ i' = i + 1
    /\ UNCHANGED <<elsewhere, lines, X, y, classes, pc, err, runs, prev, X_new, xi>>

\* an iteration whose line is a class line and whose next line makes the
\* comprehension raise: the cell stops before either append
RaiseError ==
    /\ pc = "loop"
    /\ i < LoopBound
    /\ IsClassLine
    /\ ~FeaturesParse
    /\ pc' = "error"
    /\ err' = IF i + 1 < Len(lines) THEN "ValueError" ELSE "IndexError"
    /\ UNCHANGED <<elsewhere, lines, X, y, classes, i, runs, prev, X_new, xi>>

\* the range is exhausted
LoopExit ==
    /\ pc = "loop"
    /\ ~(i < LoopBound)
    /\ pc' = "done"
    /\ UNCHANGED <<elsewhere, lines, X, y, classes, i, err, runs, prev, X_new, xi>>

-----------------------------------------------------------------------------
(* The feature-engineering cell: X_new = X with the combined torque added *)

\* x, the element of X the for loop is at
x == At(X, xi)

\* x[3], x[4] and x[5] exist
TorqueInRange == Len(x) >= 6

\* a sum over the three force readings, x[0] + x[1] + x[2] (mutant of
\* torque)
torqueOfForces == At(x, 0) + At(x, 1) + At(x, 2)

\* torque = x[3] + x[4] + x[5]
torque == At(x, 3) + At(x, 4) + At(x, 5)

\* X_new = []: the cell is run once the parser cell has finished
TorqueCell ==
    /\ pc = "done"
    /\ X_new' = <<>>
    /\ xi' = 0
    /\ pc' = "torque"
    /\ UNCHANGED <<elsewhere, lines, X, y, classes, i, err, runs, prev>>

\* an iteration that extends x itself, x.append(torque) (mutant of
\* TorqueStep)
TorqueStepInPlace ==
    /\ pc = "torque"
    /\ xi < Len(X)
    /\ TorqueInRange
    /\ X' = [X EXCEPT ![xi + 1] = x \o <<torque>>]
    /\ X_new' = Append(X_new, x \o <<torque>>)
    /\ xi' = xi + 1
    /\ UNCHANGED <<elsewhere, lines, y, classes, i, pc, err, runs, prev>>

\* an iteration: X_new.append(x + [torque]); x + [...] is a new list
TorqueStep ==
    /\ pc = "torque"
    /\ xi < Len(X)
    /\ TorqueInRange
    /\ X_new' = Append(X_new, x \o <<torque>>)
    /\ xi' = xi + 1
    /\ UNCHANGED <<elsewhere, lines, X, y, classes, i, pc, err, runs, prev>>

\* an iteration over an x with fewer than six elements: IndexError
TorqueError ==
    /\ pc = "torque"
    /\ xi < Len(X)
    /\ ~TorqueInRange
    /\ pc' = "torque_error"
    /\ err' = "IndexError"
    /\ UNCHANGED <<elsewhere, lines, X, y, classes, i, runs, prev, X_new, xi>>

\* X is exhausted; print(X_new[0]) raises IndexError when X_new is empty
TorqueExit ==
    /\ pc = "torque"
    /\ ~(xi < Len(X))
    /\ pc' = IF X_new = <<>> THEN "torque_error" ELSE "torque_done"
    /\ err' = IF X_new = <<>> THEN "IndexError" ELSE err
    /\ UNCHANGED <<elsewhere, lines, X, y, classes, i, runs, prev, X_new, xi>>

Next ==
    \/ RunCell \/ SkipLine \/ Collect \/ RaiseError \/ LoopExit
    \/ TorqueCell \/ TorqueStep \/ TorqueError \/ TorqueExit

Spec == Init /\ [][Next]_vars

-----------------------------------------------------------------------------
(* The parser notebook at rest, for the specifications of the other cells *)

ParserIdle ==
    /\ lines = <<>>
    /\ X = <<>>
    /\ y = <<>>
    /\ classes = <<>>
    /\ i = 0
    /\ pc = "ready"
    /\ err = "none"
    /\ runs = 0
    /\ prev = [X |-> <<>>, y |-> <<>>, classes |-> <<>>, pc |-> "ready"]
    /\ X_new = <<>>
    /\ xi = 0

-----------------------------------------------------------------------------
(* ml_08_regularization_cross_validation.ipynb: the seed and the noise.     *)
(* Python's random module and numpy.random each keep a generator of their  *)
(* own; an interpreter that starts seeds both from the operating system.   *)
(* A generator is a state and a deterministic step; the period and the     *)
(* deviates are scaled down.  Values are in hundredths, y2 in 84100ths.    *)

\* the states the operating system's entropy can put a generator in are
\* 0 .. MaxEntropy
MaxEntropy == 3

Entropy == 0..MaxEntropy

\* the state seed(n) puts a generator in
Seeded(n) == n % 16

\* the state after one draw
Advance(s) == (5 * s + 3) % 16

\* the standard normal deviate a draw returns, read off the new state
Deviate(s) == 25 * (s - 8)

\* the state of a generator after n draws from state s
RECURSIVE After(_, _)
After(s, n) == IF n = 0 THEN s ELSE After(Advance(s), n - 1)

\* np.random.randn(n) drawn from the global generator in state s
RECURSIVE randn(_, _)
randn(s, n) ==
    IF n = 0 THEN <<>>
    ELSE <<Deviate(Advance(s))>> \o randn(Advance(s), n - 1)

\* x = np.linspace(0, 9, 10): 0, 1, ..., 9
linspace10 == [k \in 1..10 |-> k - 1]

\* y_star = 2 + 8*x + -0.42*(x**2)
y_star == [k \in 1..10 |-> 200 + 800 * linspace10[k] - 42 * linspace10[k] * linspace10[k]]

\* x2 = np.linspace(0, 9, 30), in 29ths: 0, 9, 18, ..., 261
x2 == [k \in 1..30 |-> 9 * (k - 1)]

\* y_star2 = 2 + 8*x2 + -0.42*(x2**2), in 84100ths
y_star2 == [k \in 1..30 |-> 168200 + 23200 * x2[k] - 42 * x2[k] * x2[k]]

\* the imports in a fresh interpreter: both generators are seeded from the
\* operating system
Imports(r) ==
    /\ session[r].cell = 0
    /\ \E a, b \in Entropy :
        session' = [session EXCEPT ![r] =
            [@ EXCEPT !.cell = 1, !.random = a, !.np_random = b]]
    /\ UNCHANGED <<parserVars, left, right, df, merged>>

\* a seed cell that seeds NumPy's generator, np.random.seed(300) (mutant of
\* SeedCell)
SeedCellNumPy(r) ==
    /\ session[r].cell = 1
    /\ session' = [session EXCEPT ![r] =
            [@ EXCEPT !.cell = 2, !.np_random = Seeded(300)]]
    /\ UNCHANGED <<parserVars, left, right, df, merged>>

\* random.seed(300): the generator of Python's random module is seeded
SeedCell(r) ==
    /\ session[r].cell = 1
    /\ session' = [session EXCEPT ![r] =
            [@ EXCEPT !.cell = 2, !.random = Seeded(300)]]
    /\ UNCHANGED <<parserVars, left, right, df, merged>>

\* e = np.random.randn(len(x)) * 8 and y = y_star + e
GenerateData(r) ==
    /\ session[r].cell = 2
    /\ LET s == session[r].np_random
           noise == [k \in 1..Len(linspace10) |-> randn(s, Len(linspace10))[k] * 8]
       IN  session' = [session EXCEPT ![r] =
                [@ EXCEPT !.cell = 3,
                          !.np_random = After(s, Len(linspace10)),
                          !.e = noise,
                          !.y = [k \in 1..Len(linspace10) |-> y_star[k] + noise[k]]]]
    /\ UNCHANGED <<parserVars, left, right, df, merged>>

\* e2 = np.random.randn(len(x2)) * 8 and y2 = y_star2 + e2
NewData(r) ==
    /\ session[r].cell = 3
    /\ LET s == session[r].np_random
           noise == [k \in 1..Len(x2) |-> randn(s, Len(x2))[k] * 8]
       IN  session' = [session EXCEPT ![r] =
                [@ EXCEPT !.cell = 4,
                          !.np_random = After(s, Len(x2)),
                          !.e2 = noise,
                          !.y2 = [k \in 1..Len(x2) |-> y_star2[k] + 841 * noise[k]]]]
    /\ UNCHANGED <<parserVars, left, right, df, merged>>

SeedInit == ParserIdle /\ MergeIdle /\ SeedIdle

SeedNext ==
    \E r \in Sessions :
        Imports(r) \/ SeedCell(r) \/ GenerateData(r) \/ NewData(r)

SeedSpec == SeedInit /\ [][SeedNext]_vars

-----------------------------------------------------------------------------
(* The merge cells: df = pd.merge(left, right, on=['key1','key2'], how=...) *)
(* A frame is the sequence of its rows, a row a record of its columns; the *)
(* row labels of a merged frame are 0, 1, ... and are not kept.            *)

\* the missing value pandas fills in
NaN == "NaN"

\* a left frame in which two rows have the same key1 and key2
LeftFrameDup ==
    LeftFrame \o << [key1 |-> "K1", key2 |-> "K0", A |-> "A4", B |-> "B4"] >>

\* the rows of frame f at the positions in S, in the order of f
Pick(f, S) ==
    LET nth(j) == CHOOSE k \in S : Cardinality({m \in S : m < k}) = j - 1
    IN  [j \in 1..Cardinality(S) |-> f[nth(j)]]

SubFrames(f) == {Pick(f, S) : S \in SUBSET (1..Len(f))}

LeftFrames == SubFrames(LeftFrameDup)
RightFrames == SubFrames(RightFrame)

\* a key made of key1 alone, on='key1' (mutant of KeyOf)
KeyOfFirst(row) == <<row.key1>>

\* on=['key1','key2']: the values a row is matched on
KeyOf(row) == <<row.key1, row.key2>>

\* the rows of frame f with the given key, in the order of f
MatchesIn(f, key) == SelectSeq(f, LAMBDA row : KeyOf(row) = key)

\* a row of the merged frame made of a left row and a right row
Joined(l, r) ==
    [A |-> l.A, B |-> l.B, key1 |-> l.key1, key2 |-> l.key2, C |-> r.C, D |-> r.D]

\* a left row without a match: the right frame's columns are missing
LeftAlone(l) ==
    [A |-> l.A, B |-> l.B, key1 |-> l.key1, key2 |-> l.key2, C |-> NaN, D |-> NaN]

\* a right row without a match: the left frame's columns are missing
RightAlone(r) ==
    [A |-> NaN, B |-> NaN, key1 |-> r.key1, key2 |-> r.key2, C |-> r.C, D |-> r.D]

RECURSIVE Flatten(_)
Flatten(ss) == IF ss = <<>> THEN <<>> ELSE Head(ss) \o Flatten(Tail(ss))

\* how='left': every left row in order, once per matching right row, or
\* once with missing values when there is none
mergeLeft(l, r) ==
    Flatten([k \in 1..Len(l) |->
        LET m == MatchesIn(r, KeyOf(l[k]))
        IN  IF m = <<>> THEN <<LeftAlone(l[k])>>
            ELSE [j \in 1..Len(m) |-> Joined(l[k], m[j])]])

\* how='right': every right row in order, once per matching left row, or
\* once with missing values when there is none
mergeRight(l, r) ==
    Flatten([k \in 1..Len(r) |->
        LET m == MatchesIn(l, KeyOf(r[k]))
        IN  IF m = <<>> THEN <<RightAlone(r[k])>>
            ELSE [j \in 1..Len(m) |-> Joined(m[j], r[k])]])

\* a merge that keeps only the rows with a match on both sides, how='inner'
\* (mutant of merge)
mergeInner(l, r, how) ==
    Flatten([k \in 1..Len(l) |->
        LET m == MatchesIn(r, KeyOf(l[k]))
        IN  [j \in 1..Len(m) |-> Joined(l[k], m[j])]])

\* pd.merge(l, r, on=['key1','key2'], how=how)
merge(l, r, how) == IF how = "left" THEN mergeLeft(l, r) ELSE mergeRight(l, r)

\* df = pd.merge(left, right, on=['key1','key2'], how='left')
LeftMergeCell ==
    /\ df' = merge(left, right, "left")
    /\ merged' = "left"
    /\ UNCHANGED <<parserVars, session, left, right>>

\* df = pd.merge(left, right, on=['key1','key2'], how='right')
RightMergeCell ==
    /\ df' = merge(left, right, "right")
    /\ merged' = "right"
    /\ UNCHANGED <<parserVars, session, left, right>>

MergeInit ==
    /\ ParserIdle
    /\ SeedIdle
    /\ left \in LeftFrames
    /\ right \in RightFrames
    /\ df = <<>>
    /\ merged = "none"

MergeNext == LeftMergeCell \/ RightMergeCell

MergeSpec == MergeInit /\ [][MergeNext]_vars

-----------------------------------------------------------------------------
(* What the input says, read off the tables and not through the parser *)

\* the label lines of the inputs, each with the label it carries
LabelLines ==
    { [text |-> LblNormal, label |-> LblNormal],
      [text |-> LnNormal, label |-> LblNormal],
      [text |-> LblCollision, label |-> LblCollision],
      [text |-> LnCollision, label |-> LblCollision],
      [text |-> LnObstruction, label |-> LblObstruction],
      [text |-> LnFrCollision, label |-> LblFrCollision],
      [text |-> LnPadded, label |-> LblNormal] }

LabelSet == {LblNormal, LblCollision, LblObstruction, LblFrCollision}

IsLabelLine(t) == \E r \in LabelLines : r.text = t
LabelOf(t) == (CHOOSE r \in LabelLines : r.text = t).label
IsTabIntLine(t) == \E d \in TabIntLines : d.text = t
FieldsOf(t) == (CHOOSE d \in TabIntLines : d.text = t).fields

\* the code the classes literal gives a label
CodeOf(l) ==
    CASE l = LblNormal -> 0
      [] l = LblCollision -> 1
      [] l = LblObstruction -> 2
      [] l = LblFrCollision -> 3

\* the number of fields a line of readings is said to hold
ExpectedFields == 6

\* 0-based indices of the label lines
LabelIdx == {k \in 0..(Len(lines) - 1) : IsLabelLine(At(lines, k))}
\* label lines immediately followed by a valid data line
PairedIdx ==
    {k \in LabelIdx : k + 1 < Len(lines) /\ IsTabIntLine(At(lines, k + 1))}
\* label lines immediately followed by a line that is not a valid data line
BadIdx ==
    {k \in LabelIdx : k + 1 < Len(lines) /\ ~IsTabIntLine(At(lines, k + 1))}

\* the j-th smallest element of S, j = 1, 2, ...
NthOf(S, j) == CHOOSE k \in S : Cardinality({m \in S : m < k}) = j - 1
Least(S) == CHOOSE k \in S : \A m \in S : k <= m

\* the label line the j-th Record comes from
RecIdx(j) == NthOf(LabelIdx, j)
RecLabel(j) == LabelOf(At(lines, RecIdx(j)))

\* first-occurrence code of a label: how many labels are first seen before it
FirstAt(l) == Least({k \in LabelIdx : LabelOf(At(lines, k)) = l})
FirstSeenCode(l) ==
    Cardinality({m \in LabelSet :
        /\ \E k \in LabelIdx : LabelOf(At(lines, k)) = m
        /\ FirstAt(m) < FirstAt(l)})

\* every label line is followed by a well-formed tab-delimited data line
EveryLabelPaired == LabelIdx = PairedIdx

\* label and data lines only, and no label line followed by anything but a
\* data line (a label line may end the input)
WellFormedInput ==
    /\ \A k \in 0..(Len(lines) - 1) :
            IsLabelLine(At(lines, k)) \/ IsTabIntLine(At(lines, k))
    /\ BadIdx = {}

-----------------------------------------------------------------------------
(* Claims *)

\* C1: on an input in which every label line is followed by a well-formed
\* tab-delimited integer data line, the loop finishes without error and has
\* appended, for the j-th label line at index k, the integer fields of line
\* k+1 to X and the label's code to y, both at position j.
C1_PairsAppended ==
    EveryLabelPaired =>
        /\ pc # "error"
        /\ pc = "done" =>
            /\ Len(X) = Cardinality(LabelIdx)
            /\ Len(y) = Cardinality(LabelIdx)
            /\ \A j \in 1..Len(X) :
                /\ X[j] = FieldsOf(At(lines, RecIdx(j) + 1))
                /\ y[j] = CodeOf(RecLabel(j))

C1_Witness ==
    /\ EveryLabelPaired
    /\ pc = "done"
    /\ Cardinality(LabelIdx) >= 2
    /\ X[1] # X[2]
    /\ y[1] # y[2]

\* C2: on a well-formed input, when the loop has finished, len(X) = len(y)
\* = the number of label lines immediately followed by a valid data line.
C2_RecordCount ==
    WellFormedInput =>
        /\ pc # "error"
        /\ pc = "done" =>
            /\ Len(X) = Cardinality(PairedIdx)
            /\ Len(y) = Cardinality(PairedIdx)

C2_Witness ==
    /\ WellFormedInput
    /\ pc = "done"
    /\ Len(X) >= 1
    /\ Cardinality(LabelIdx) > Cardinality(PairedIdx)

\* C3 as stated: the code paired with a label is its first-occurrence rank,
\* the number of distinct labels first seen before it.
C3_FirstOccurrenceCodes ==
    \A j \in 1..Len(y) : y[j] = FirstSeenCode(RecLabel(j))

\* C3 amended: the code paired with a label is the one the classes literal
\* fixes (normal 0, collision 1, obstruction 2, fr_collision 3), whatever the
\* order in which the labels occur in the input.
C3_FixedCodes ==
    \A j \in 1..Len(y) : y[j] = CodeOf(RecLabel(j))

C3_Witness ==
    /\ pc = "done"
    /\ Len(y) >= 1
    /\ RecLabel(1) = LblCollision
    /\ y[1] = 1

\* C4: the four tab-delimited example lines parse without error to the
\* Dataset [([-1,-1,63,-3,-1,0], 0), ([1,2,3,4,5,6], 1)], normal coded 0 and
\* collision coded 1.
C4_TabExample ==
    lines = ExTabbed =>
        /\ pc # "error"
        /\ pc = "done" =>
            /\ X = << <<-1, -1, 63, -3, -1, 0>>, <<1, 2, 3, 4, 5, 6>> >>
            /\ y = <<0, 1>>
            /\ classes[LblNormal] = 0
            /\ classes[LblCollision] = 1

C4_Witness == lines = ExTabbed /\ pc = "done" /\ Len(X) = 2

\* C5 as stated: the six example lines with space-separated fields parse to
\* completion and give three Records, normal coded 0 and collision coded 1.
C5_SpaceExampleCompletes ==
    lines = ExSpaces =>
        /\ pc # "error"
        /\ pc = "done" => (Len(X) = 3 /\ y = <<0, 1, 0>>)

\* C5 amended: with the fields separated by tabs the six lines parse to
\* completion and give three Records with codes 0, 1, 0; with the fields
\* separated by spaces the parse stops with a ValueError at the first data
\* line and gives no Record.
C5_TabsCompleteSpacesFail ==
    /\ lines = ExSpacesAsTabs =>
        /\ pc # "error"
        /\ pc = "done" =>
            /\ X = << <<0, 0, 0>>, <<1, 1, 1>>, <<2, 2, 2>> >>
            /\ y = <<0, 1, 0>>
    /\ lines = ExSpaces =>
        /\ pc # "done"
        /\ pc = "error" =>
            /\ err = "ValueError"
            /\ i = 0
            /\ X = <<>>
            /\ y = <<>>

C5_Witness == lines = ExSpaces /\ pc = "error" /\ runs = 1

\* C6: when the cell is run again on the same lines after a finished run,
\* the second run ends as the first did, with the same X, y and classes.
C6_RerunIdempotent ==
    (pc \in {"done", "error"} /\ prev.pc \in {"done", "error"}) =>
        /\ pc = prev.pc
        /\ X = prev.X
        /\ y = prev.y
        /\ classes = prev.classes

C6_Witness ==
    /\ pc = "done"
    /\ prev.pc = "done"
    /\ runs = 2
    /\ Len(X) >= 2

\* C7: when the last line of the input is a label line (the label lines
\* before it being followed by data lines), the scan stops before it: no
\* error, no index past the last line, and no Record for that label.
TrailingLabel ==
    /\ Len(lines) >= 1
    /\ IsLabelLine(At(lines, Len(lines) - 1))
    /\ BadIdx = {}

C7_TrailingLabelIgnored ==
    TrailingLabel =>
        /\ pc # "error"
        /\ i <= Len(lines) - 1
        /\ Len(X) <= Cardinality(LabelIdx) - 1
        /\ pc = "done" =>
            /\ Len(X) = Cardinality(LabelIdx) - 1
            /\ Len(y) = Cardinality(LabelIdx) - 1

C7_Witness ==
    /\ TrailingLabel
    /\ pc = "done"
    /\ Len(lines) >= 2
    /\ Len(X) = 1

\* C8 as stated, in its named case: a label line followed by another label
\* line is skipped and the scan goes on, so that the run finishes with one
\* Record per label line that is followed by a valid data line.
C8_UnparseableSkipped ==
    (BadIdx # {} /\ \A k \in BadIdx : IsLabelLine(At(lines, k + 1))) =>
        /\ pc # "error"
        /\ pc = "done" => Len(X) = Cardinality(PairedIdx)

\* C8 amended: a label line followed by a line that is not a parseable data
\* line contributes no Record and the scan stops there with a ValueError: X
\* and y keep the Records of the label lines before it and no later label
\* line yields a Record.
C8_UnparseableStopsScan ==
    BadIdx # {} =>
        /\ pc # "done"
        /\ pc = "error" =>
            /\ err = "ValueError"
            /\ i = Least(BadIdx)
            /\ Len(X) = Cardinality({k \in PairedIdx : k < Least(BadIdx)})
            /\ Len(y) = Len(X)

C8_Witness ==
    /\ pc = "error"
    /\ i + 1 < Len(lines)
    /\ IsLabelLine(At(lines, i + 1))
    /\ \E k \in PairedIdx : k > i

\* C9: in a block of one label line followed by N >= 1 data lines exactly
\* one Record is emitted, built from the first data line; the iterations
\* over data lines 2..N leave X and y as they are.
OneBlock ==
    /\ Len(lines) >= 2
    /\ IsLabelLine(At(lines, 0))
    /\ \A k \in 1..(Len(lines) - 1) : IsTabIntLine(At(lines, k))

C9_FirstDataLineOnly ==
    OneBlock =>
        /\ pc # "error"
        /\ (pc = "done" \/ (pc = "loop" /\ i >= 1)) =>
            /\ X = <<FieldsOf(At(lines, 1))>>
            /\ y = <<CodeOf(LabelOf(At(lines, 0)))>>

C9_Witness == lines = ExBlock15 /\ pc = "done" /\ Len(X) = 1

\* C10 as stated: a data line after a label line that holds 5 fields where
\* 6 are expected never becomes a Record of X.
ShortLine(t) == IsTabIntLine(t) /\ Len(FieldsOf(t)) = ExpectedFields - 1

C10_WrongFieldCountRejected ==
    \A k \in PairedIdx :
        ShortLine(At(lines, k + 1)) =>
            \A j \in 1..Len(X) : X[j] # FieldsOf(At(lines, k + 1))

\* label lines followed by a line with a token that is not a number
NonNumLines == {LnBadTok, LnEmptyTok}
NonNumIdx ==
    {k \in LabelIdx : k + 1 < Len(lines) /\ At(lines, k + 1) \in NonNumLines}
\* label lines followed by a line of 5 integer fields
ShortIdx == {k \in PairedIdx : ShortLine(At(lines, k + 1))}

\* C11: a data line after a label line that holds a token which is not a
\* number (an empty token between two tabs included) yields no Record: the
\* scan never gets past that label line, and it stops there with a
\* ValueError.
C11_NonNumericStops ==
    \A k \in NonNumIdx :
        /\ i <= k
        /\ pc \in {"ready", "loop", "error"}
        /\ Len(X) <= Cardinality({m \in PairedIdx : m < k})
        /\ (pc = "error" /\ i = k) => err = "ValueError"

C11_Witness ==
    /\ pc = "error"
    /\ i \in NonNumIdx
    /\ At(lines, i + 1) = LnEmptyTok

\* C12 as stated: the policy is uniform, so it never happens that a line
\* with a wrong field count has been accepted into X while a line with a
\* non-numeric token aborts the parse.
C12_UniformPolicy ==
    ~ /\ pc = "error"
      /\ i \in NonNumIdx
      /\ \E k \in ShortIdx :
            /\ k < i
            /\ \E j \in 1..Len(X) : X[j] = FieldsOf(At(lines, k + 1))

\* C13: when the line after a label line fails to parse, neither X nor y
\* gets an entry for that label: X and y hold exactly the complete pairs of
\* the label lines before it, and len(X) = len(y).
C13_NoPartialRecord ==
    pc = "error" =>
        /\ Len(X) = Len(y)
        /\ Len(X) = Cardinality({k \in PairedIdx : k < i})
        /\ \A j \in 1..Len(X) :
            /\ X[j] = FieldsOf(At(lines, RecIdx(j) + 1))
            /\ y[j] = CodeOf(RecLabel(j))

C13_Witness ==
    /\ pc = "error"
    /\ Len(X) >= 1
    /\ Len(y) = Len(X)
    /\ i \in BadIdx

\* C14: inside the loop a line is taken for a class line exactly when,
\* trimmed, it equals one of the four label strings; a line in another case,
\* with a label as prefix or with a label inside it is not, and a label with
\* blanks around it is.
C14_ExactLabelMatch ==
    /\ (pc = "loop" /\ i < LoopBound) =>
            (IsClassLine <=> IsLabelLine(At(lines, i)))
    /\ lines = ExLookalikes =>
        /\ pc # "error"
        /\ pc = "done" => (X = <<FieldsOf(LnRec4)>> /\ y = <<0>>)

C14_Witness == lines = ExLookalikes /\ pc = "done" /\ Len(X) = 1

\* C15 as stated: a data line after a label line becomes a Record when its
\* fields are separated by commas, and when a field is a floating-point
\* literal.
C15_CommaAndFloatParsed ==
    lines \in {ExComma, ExFloat} =>
        /\ pc # "error"
        /\ pc = "done" => Len(X) = 1

\* C15 amended: a data line after a label line becomes a Record when its
\* fields are integer literals separated by tabs; with the fields separated
\* by commas, or with a floating-point literal as a field, the parse stops
\* with a ValueError and gives no Record.
C15_TabIntegersOnly ==
    /\ lines \in {ExComma, ExFloat} =>
        /\ pc \in {"ready", "loop", "error"}
        /\ X = <<>>
        /\ y = <<>>
        /\ pc = "error" => (err = "ValueError" /\ i = 0)
    /\ lines = <<LnNormal, LnBare2>> =>
        /\ pc # "error"
        /\ pc = "done" => (X = << <<1, 2, 3, 4, 5, 6>> >> /\ y = <<0>>)

C15_Witness == lines = ExComma /\ pc = "error" /\ err = "ValueError"

\* the two-state machine of the specification, run over lines from index k:
\* the Records it emits
RECURSIVE MachineRun(_, _, _, _)
MachineRun(k, st, pending, out) ==
    IF k >= Len(lines) THEN out
    ELSE LET t == At(lines, k)
         IN  IF st = "AwaitingLabel" /\ IsLabelLine(t)
             THEN MachineRun(k + 1, "AwaitingData", LabelOf(t), out)
             ELSE IF st = "AwaitingData" /\ IsTabIntLine(t)
             THEN MachineRun(k + 1, "AwaitingLabel", pending,
                    Append(out, [fields |-> FieldsOf(t), code |-> CodeOf(pending)]))
             ELSE MachineRun(k + 1, st, pending, out)

MachineDataset == MachineRun(0, "AwaitingLabel", <<>>, <<>>)

\* the Dataset the loop has built: X and y read as a sequence of Records
Dataset == [j \in 1..Len(X) |-> [fields |-> X[j], code |-> y[j]]]

IsPrefix(a, b) == Len(a) <= Len(b) /\ SubSeq(b, 1, Len(a)) = a

AllLabelOrData ==
    \A k \in 0..(Len(lines) - 1) :
        IsLabelLine(At(lines, k)) \/ IsTabIntLine(At(lines, k))

\* C16 as stated: on every sequence of label lines and valid data lines the
\* loop finishes with the Dataset the two-state machine emits.
C16_LoopEqualsMachine ==
    AllLabelOrData =>
        /\ pc # "error"
        /\ pc = "done" => Dataset = MachineDataset

\* C16 amended: on every sequence of label lines and valid data lines in
\* which no label line is immediately followed by another label line, the
\* loop finishes with the Dataset the machine emits; where a label line is
\* immediately followed by another one the loop stops there with a
\* ValueError, holding only a prefix of the machine's Dataset.
C16_LoopEqualsMachineUnlessLabelPair ==
    /\ (AllLabelOrData /\ BadIdx = {}) =>
        /\ pc # "error"
        /\ pc = "done" => Dataset = MachineDataset
    /\ (AllLabelOrData /\ BadIdx # {}) =>
        /\ pc \in {"ready", "loop", "error"}
        /\ pc = "error" =>
            /\ err = "ValueError"
            /\ IsPrefix(Dataset, MachineDataset)

C16_Witness ==
    /\ AllLabelOrData
    /\ BadIdx = {}
    /\ pc = "done"
    /\ Len(X) >= 2
    /\ X[1] # X[2]
    /\ Dataset = MachineDataset

\* what a run leaves in X and y, read off lines alone: the Records of the
\* paired label lines, up to the first label line whose next line fails
ExpectedIdx ==
    IF BadIdx = {} THEN PairedIdx ELSE {k \in PairedIdx : k < Least(BadIdx)}
ExpectedX ==
    [j \in 1..Cardinality(ExpectedIdx) |->
        FieldsOf(At(lines, NthOf(ExpectedIdx, j) + 1))]
ExpectedY ==
    [j \in 1..Cardinality(ExpectedIdx) |->
        CodeOf(LabelOf(At(lines, NthOf(ExpectedIdx, j))))]

\* C17: no step changes lines; no step of the scan writes classes; a run
\* starts from an empty X and y and the literal classes whatever was left
\* before; and what it ends with is determined by lines alone.
C17_FreshAndFramed ==
    [][ /\ lines' = lines
        /\ pc = "loop" => classes' = classes
        /\ (pc # "loop" /\ pc' = "loop") =>
            /\ X' = <<>>
            /\ y' = <<>>
            /\ classes' = [l \in LabelSet |-> CodeOf(l)]
        /\ (pc = "loop" /\ pc' \in {"done", "error"}) =>
            /\ X' = ExpectedX
            /\ y' = ExpectedY ]_vars

C17_Witness ==
    /\ runs = 2
    /\ prev.X # <<>>
    /\ pc = "done"
    /\ X = ExpectedX
    /\ y = ExpectedY

\* C18: during the scan the old X and y are prefixes of the new ones, and
\* the feature-engineering cell leaves X and y as they are.
C18_AppendOnly ==
    [][ /\ pc = "loop" => (IsPrefix(X, X') /\ IsPrefix(y, y'))
        /\ pc' \in {"torque", "torque_done", "torque_error"} =>
            (X' = X /\ y' = y) ]_vars

C18_Witness ==
    /\ pc = "torque_done"
    /\ Len(X) >= 2
    /\ Len(X_new) = Len(X)
    /\ \A j \in 1..Len(X) : Len(X[j]) = 6 /\ Len(X_new[j]) = 7

\* C19: once the cell has started, classes maps the four labels to distinct
\* codes in 0..3, every value in y is the code classes gives the label of
\* its Record, and two Records carry the same code exactly when they have
\* the same label.
C19_UniqueStableCodes ==
    pc # "ready" =>
        /\ DOMAIN classes = LabelSet
        /\ \A l \in LabelSet : classes[l] \in 0..3
        /\ \A l1, l2 \in LabelSet : l1 # l2 => classes[l1] # classes[l2]
        /\ \A j \in 1..Len(y) : y[j] \in 0..3 /\ y[j] = classes[RecLabel(j)]
        /\ \A j1, j2 \in 1..Len(y) :
            (RecLabel(j1) = RecLabel(j2)) <=> (y[j1] = y[j2])

C19_Witness ==
    /\ pc = "done"
    /\ \E j1, j2 \in 1..Len(y) : j1 # j2 /\ RecLabel(j1) = RecLabel(j2)
    /\ \E j1, j2 \in 1..Len(y) : RecLabel(j1) # RecLabel(j2)

\* C20: on an input whose labelled data lines are well formed the loop makes
\* one pass and ends: each step of the loop either moves the index up by
\* one, never beyond max(len(lines) - 1, 0), or leaves the loop without error
\* with the index at that maximum, so that the loop is left after exactly
\* that many iterations; the empty and the one-line input end with an empty
\* X and y.
LastIndex == IF Len(lines) >= 1 THEN Len(lines) - 1 ELSE 0

C20_OnePassTerminates ==
    [][ (BadIdx = {} /\ pc = "loop") =>
            /\ 0 <= i
            /\ pc' \in {"loop", "done"}
            /\ pc' = "loop" => (i' = i + 1 /\ i' <= LastIndex)
            /\ pc' = "done" =>
                /\ i = LastIndex
                /\ i' = i
                /\ Len(lines) <= 1 => (X' = <<>> /\ y' = <<>>) ]_vars

C20_Witness ==
    /\ pc = "done"
    /\ Len(lines) = 1
    /\ IsLabelLine(At(lines, 0))
    /\ i = 0
    /\ X = <<>>

\* C21: the look-ahead lines[i+1] is always within bounds: every index i the
\* loop visits has 0 <= i and i + 1 <= len(lines) - 1, the scan never stops
\* on an IndexError, and a label line at index len(lines) - 2 that is
\* followed by a valid data line has that last line as the last Record when
\* the loop is done.
C21_LookAheadInBounds ==
    [][ /\ (pc = "loop" /\ (i' = i + 1 \/ pc' = "error")) =>
            /\ 0 <= i
            /\ i + 1 <= Len(lines) - 1
            /\ err' # "IndexError"
        /\ (pc = "loop" /\ pc' = "done" /\ (Len(lines) - 2) \in PairedIdx) =>
            /\ X' # <<>>
            /\ X'[Len(X')] = FieldsOf(At(lines, Len(lines) - 1))
            /\ y'[Len(y')] = CodeOf(LabelOf(At(lines, Len(lines) - 2))) ]_vars

C21_Witness ==
    /\ pc = "done"
    /\ Len(lines) >= 3
    /\ (Len(lines) - 2) \in PairedIdx
    /\ i = Len(lines) - 1
    /\ X[Len(X)] = FieldsOf(At(lines, Len(lines) - 1))

\* the label lines the loop has gone past
VisitedIdx == {k \in LabelIdx : k < i}

\* C22: X and y stay aligned and ordered: at every iteration boundary len(X)
\* = len(y) = the number of label lines gone past, the j-th pair (X[j],
\* y[j]) holds the fields of the line after the j-th such label line and
\* the code of that label line, so that the Record of an earlier label line
\* has the smaller index.
C22_AlignedAndOrdered ==
    /\ Len(X) = Len(y)
    /\ pc \in {"loop", "done", "error"} =>
        /\ Len(X) = Cardinality(VisitedIdx)
        /\ \A j \in 1..Len(X) :
            /\ X[j] = FieldsOf(At(lines, NthOf(VisitedIdx, j) + 1))
            /\ y[j] = CodeOf(LabelOf(At(lines, NthOf(VisitedIdx, j))))
        /\ \A j1, j2 \in 1..Len(X) :
            j1 < j2 <=> NthOf(VisitedIdx, j1) < NthOf(VisitedIdx, j2)

C22_Witness ==
    /\ pc = "loop"
    /\ i < LoopBound
    /\ Len(X) >= 2
    /\ Len(X) = Len(y)
    /\ X[1] # X[2]
    /\ y[1] # y[2]
    /\ LabelIdx # VisitedIdx

\* the lines in the source file's format, each with the number of readings
\* written on it
SourceFormatLines ==
    { [text |-> LnRec1, k |-> 6], [text |-> LnRec2, k |-> 6],
      [text |-> LnRec3, k |-> 6], [text |-> LnRec4, k |-> 6],
      [text |-> LnSrc1, k |-> 1], [text |-> LnSrc3, k |-> 3],
      [text |-> LnSrc7, k |-> 7] }

IsSourceFormatLine(t) == \E r \in SourceFormatLines : r.text = t
ReadingsOn(t) == (CHOOSE r \in SourceFormatLines : r.text = t).k

\* C23: a data line in the source file's format, a leading tab and a line
\* ending around k tab-separated integers, is parsed into exactly those k
\* integers in order: with the loop at a label line followed by such a line
\* the comprehension completes with k fields, none of them from an empty
\* token, and every Record taken from such a line is its k integers.
C23_LeadingTabLineParses ==
    /\ (/\ pc = "loop"
        /\ i < Len(lines) - 1
        /\ IsLabelLine(At(lines, i))
        /\ IsSourceFormatLine(At(lines, i + 1))) =>
            /\ FeaturesParse
            /\ \A k \in 1..Len(tokens) : tokens[k] # <<>>
            /\ Len(features) = ReadingsOn(At(lines, i + 1))
            /\ features = FieldsOf(At(lines, i + 1))
    /\ pc \in {"loop", "done", "error"} =>
        \A j \in 1..Len(X) :
            IsSourceFormatLine(At(lines, RecIdx(j) + 1)) =>
                /\ Len(X[j]) = ReadingsOn(At(lines, RecIdx(j) + 1))
                /\ X[j] = FieldsOf(At(lines, RecIdx(j) + 1))
    /\ (pc = "done" /\ lines = ExRecorded) => X = << <<-1, -1, 63, -3, -1, 0>> >>

C23_Witness ==
    /\ pc = "done"
    /\ lines = ExSourceFormat
    /\ err = "none"
    /\ X = << <<5>>, <<-2, 0, 61>>, <<1, 2, 3, 4, 5, 6, 7>>, <<-1, -1, 63, -3, -1, 0>> >>

\* C24: the torque loop builds X_new record by record in the order of X:
\* every X_new[k] it has appended is X[k] followed by the single value
\* X[k][3] + X[k][4] + X[k][5], and when the loop has gone through X,
\* len(X_new) = len(X); for the first record of the source file X_new[0] is
\* [-1, -1, 63, -3, -1, 0, -4].
C24_TorqueAppended ==
    pc \in {"torque", "torque_done", "torque_error"} =>
        /\ Len(X_new) = xi
        /\ xi <= Len(X)
        /\ \A k \in 1..Len(X_new) :
            /\ Len(X_new[k]) = Len(X[k]) + 1
            /\ SubSeq(X_new[k], 1, Len(X[k])) = X[k]
            /\ X_new[k][Len(X[k]) + 1] = X[k][4] + X[k][5] + X[k][6]
        /\ pc = "torque_done" => Len(X_new) = Len(X)
        /\ (pc = "torque_done" /\ lines = ExRecorded) =>
            X_new[1] = <<-1, -1, 63, -3, -1, 0, -4>>

C24_Witness ==
    /\ pc = "torque_done"
    /\ lines = ExAllLabels
    /\ Len(X_new) = 4
    /\ X_new[1] = <<-1, -1, 63, -3, -1, 0, -4>>
    /\ X_new[3] = <<-1, -1, 61, -3, 0, 0, -3>>

\* C25 as stated: every Record the parser loop leaves in X has at least six
\* fields, and the torque loop run after a successful parse never stops on
\* an x[3], x[4] or x[5] that is out of range.
C25_SixFieldsForTorque ==
    /\ pc = "done" => \A j \in 1..Len(X) : Len(X[j]) >= ExpectedFields
    /\ ~(pc = "torque_error" /\ xi < Len(X))

\* C26 as stated: after random.seed(300), two runs of the notebook, each
\* from a fresh interpreter, have the same noise vectors e and e2 and the
\* same noisy data y and y2.
C26_SeedMakesNoiseReproducible ==
    /\ (session[1].cell >= 3 /\ session[2].cell >= 3) =>
        /\ session[1].e = session[2].e
        /\ session[1].y = session[2].y
    /\ (session[1].cell = 4 /\ session[2].cell = 4) =>
        /\ session[1].e2 = session[2].e2
        /\ session[1].y2 = session[2].y2

\* the rows recorded in the notebook under both merges
RecordedRows ==
    << [A |-> "A0", B |-> "B0", key1 |-> "K0", key2 |-> "K0", C |-> "C0", D |-> "D0"],
       [A |-> "A2", B |-> "B2", key1 |-> "K1", key2 |-> "K0", C |-> "C1", D |-> "D1"],
       [A |-> "A2", B |-> "B2", key1 |-> "K1", key2 |-> "K0", C |-> "C2", D |-> "D2"],
       [A |-> "NaN", B |-> "NaN", key1 |-> "K2", key2 |-> "K0", C |-> "C3", D |-> "D3"] >>

\* the rows of the left merge of the example frames
LeftMergeRows ==
    << [A |-> "A0", B |-> "B0", key1 |-> "K0", key2 |-> "K0", C |-> "C0", D |-> "D0"],
       [A |-> "A1", B |-> "B1", key1 |-> "K0", key2 |-> "K1", C |-> "NaN", D |-> "NaN"],
       [A |-> "A2", B |-> "B2", key1 |-> "K1", key2 |-> "K0", C |-> "C1", D |-> "D1"],
       [A |-> "A2", B |-> "B2", key1 |-> "K1", key2 |-> "K0", C |-> "C2", D |-> "D2"],
       [A |-> "A3", B |-> "B3", key1 |-> "K2", key2 |-> "K1", C |-> "NaN", D |-> "NaN"] >>

\* two rows agree on key1 and on key2
SameKeys(a, b) == a.key1 = b.key1 /\ a.key2 = b.key2

\* the pairs of a left and a right row that agree on the keys, and the rows
\* of either frame that agree with no row of the other
MatchedPairs ==
    {p \in (1..Len(left)) \X (1..Len(right)) : SameKeys(left[p[1]], right[p[2]])}
LeftUnmatched == {a \in 1..Len(left) : \A b \in 1..Len(right) : ~SameKeys(left[a], right[b])}
RightUnmatched == {b \in 1..Len(right) : \A a \in 1..Len(left) : ~SameKeys(left[a], right[b])}

ExampleFrames == left = LeftFrame /\ right = RightFrame

=============================================================================
